---- MODULE Spec2Model ----
(***************************************************************************)
(* Transaction build / submit / rebuild lifecycle of the Veridion backend  *)
(* (StellarService and AdminService, latest revision) against a ledger     *)
(* that keeps one sequence number per account.                             *)
(*                                                                         *)
(* Every service method is asynchronous: it runs synchronously up to its   *)
(* next `await`, so one action of the model is the code between two        *)
(* awaits of one request.  Requests interleave at the awaits, and the      *)
(* ledger may advance between any two of them.                             *)
(***************************************************************************)
EXTENDS Integers, FiniteSets, Sequences, TLC

\* ------------------------------------------------------------- bounds
\* ExternalTx stops at MaxSeq; the sequence check is probed on 0..MaxProbe.
MaxSeq == 2
MaxProbe == 7
\* Contract error codes 0..MaxCode are translated.
MaxCode == 9
\* Scores 0..MaxScore are returned by the contract.
MaxScore == 36
\* A wallet has up to MaxRecords verification records, with timestamps
\* 0..MaxTs.
MaxRecords == 2
MaxTs == 2

\* Two requests in flight at once.
Reqs == {"r1", "r2"}

\* ---------------------------------------------------------- addresses
\* "GS" and "GW" stand for two well-formed account addresses (the fee
\* paying source account and the wallet); "bad" for a malformed string.
Accounts == {"GS", "GW"}
Wallets == {"GW", "bad"}
Sources == {"GS", "bad"}

\* Keypair.fromPublicKey(wallet) throws on a malformed key: true iff it decodes.
validateWalletAddress(a) == a \in Accounts

\* ------------------------------------------------------- transactions
\* A transaction envelope: the account whose sequence it consumes, its
\* sequence number, and its one operation (contract function and wallet).
NoTx == [src |-> "none", seq |-> 0, fn |-> "none", wallet |-> "none"]

\* The contract client assembles the invocation `fn` for the account given
\* as its publicKey: the transaction's source is that account, and its
\* sequence number is that account's ledger sequence plus one.
AssembleTx(publicKey, accountSeq, fn, w) ==
  [src |-> publicKey, seq |-> accountSeq + 1, fn |-> fn, wallet |-> w]

\* ------------------------------------------------------------ results
\* BuildTransactionResponse / SubmitTransactionResponse; hasSeq is FALSE
\* when the sequence field is absent (undefined), hasHash likewise.
NoResult ==
  [success |-> FALSE, error |-> "", hasXdr |-> FALSE, sourceAccount |-> "",
   hasSeq |-> FALSE, sequence |-> 0, hasHash |-> FALSE]

\* The catch block of every operation: { success: false, error: message }.
Failure(msg) == [NoResult EXCEPT !.error = msg]

\* What an awaited call can reject with: an Error, or any other value.
Thrown == {"Error", "nonError"}

\* A catch block that reads error.message of whatever was thrown.
CatchMessage_MessageOnly(thrown, msg) == IF thrown = "Error" THEN msg ELSE ""

\* `error instanceof Error ? error.message : 'Unknown error'`.
CatchMessage(thrown, msg) == IF thrown = "Error" THEN msg ELSE "Unknown error"

\* StatusType, and a string that is none of its values.
StatusTypes == {"approved", "rejected", "pending"}
StatusInputs == {"approved", "bogus"}

VARIABLES
  ledgerSeq,    \* ledger: account -> current sequence number
  registered,   \* contract: the set of registered wallets
  accepted,     \* ledger: the transactions it accepted, as [src, seq, by]
  req,          \* request -> its call frame (position, locals, last result)
  probe         \* input and output of a pure function under test

vars == <<ledgerSeq, registered, accepted, req, probe>>

\* A call frame.  op/wallet/source are the caller's inputs; currentSeq,
\* acctSeq, tx and seqOk are locals of the running method; res is what the
\* last call returned.  contractCalls, ledgerCalls and sends count the
\* calls of the contract client, of Horizon and of sendTransaction made in
\* the running call; startSeq, regAtStart and verdict record what the
\* ledger held when the call began and what it answered to the last send;
\* thrown is the kind of value that an awaited call of the running call
\* rejected with, if one did; xdrIn is what a submit was given and
\* deserialized tells whether it called TransactionBuilder.fromXDR.
IdleReq ==
  [pc |-> "idle", call |-> "none", op |-> "none",
   wallet |-> "GW", source |-> "GS",
   currentSeq |-> 0, acctSeq |-> 0, tx |-> NoTx, res |-> NoResult,
   seqOk |-> TRUE, contractCalls |-> 0, ledgerCalls |-> 0, sends |-> 0,
   startSeq |-> 0, regAtStart |-> FALSE, verdict |-> "none",
   thrown |-> "none", xdrIn |-> "none", deserialized |-> FALSE]

NoProbe == [fn |-> "none", built |-> 0, current |-> 0, out |-> "pending"]

\* A fresh service: nothing in flight, nothing accepted yet.
InitService ==
  /\ ledgerSeq = [a \in Accounts |-> 0]
  /\ registered = {}
  /\ accepted = {}
  /\ req = [r \in Reqs |-> IdleReq]

Init ==
  /\ InitService
  /\ probe = NoProbe

\* A call returns `res` to its caller.
Return(q, res) == [q EXCEPT !.pc = "returned", !.res = res]

\* The frame of a new call `c` of a request: its inputs and its
\* transaction in hand are kept, the locals and counters start afresh.
NewCall(q, c) ==
  [IdleReq EXCEPT !.call = c, !.op = q.op, !.wallet = q.wallet,
                  !.source = q.source, !.tx = q.tx,
                  !.startSeq = IF q.source \in Accounts
                                 THEN ledgerSeq[q.source] ELSE 0,
                  !.regAtStart = q.wallet \in registered]

\* ------------------------------------------------------------- ledger
\* Another client of the network gets a transaction of the source account
\* accepted.
ExternalTx(a) ==
  /\ ledgerSeq[a] < MaxSeq
  /\ ledgerSeq' = [ledgerSeq EXCEPT ![a] = @ + 1]
  /\ UNCHANGED <<registered, accepted, req, probe>>

\* The ledger holds an account only for a well-formed address: loading the
\* account of any other string fails.
LedgerHasAccount(a) == a \in Accounts

\* The ledger's rule: a transaction is accepted iff it carries exactly the
\* current sequence of its source account plus one.
LedgerAccepts(t) == t.seq = ledgerSeq[t.src] + 1

\* ------------------------------------------------ AdminService wrappers
\* AdminService.buildRegisterTransaction / buildCreateVerificationTransaction
\* copy the fields of the StellarService result.
AdminBuildResponse(result) ==
  IF result.success
    THEN [NoResult EXCEPT !.success = TRUE, !.hasXdr = result.hasXdr,
                          !.sourceAccount = result.sourceAccount,
                          !.hasSeq = result.hasSeq, !.sequence = result.sequence]
    ELSE Failure(result.error)

\* buildUpdateStatusTransaction copies the fields of the result of
\* buildCreateVerificationTransaction, or passes its error on.
UpdateStatusResponse(result) ==
  IF result.success
    THEN [NoResult EXCEPT !.success = TRUE, !.hasXdr = result.hasXdr,
                          !.sourceAccount = result.sourceAccount,
                          !.hasSeq = result.hasSeq, !.sequence = result.sequence]
    ELSE Failure(result.error)

\* The response of a build as its caller gets it.
BuildResponse(q, result) ==
  IF q.op = "updateStatus"
    THEN UpdateStatusResponse(result)
    ELSE AdminBuildResponse(result)

\* AdminService.submitSignedTransaction: hash on success, error otherwise.
AdminSubmitResponse(result) ==
  IF result.success
    THEN [NoResult EXCEPT !.success = TRUE, !.hasHash = result.hasHash]
    ELSE Failure(result.error)

\* ------------------------------------------- sequence sanity check
\* A check that also passes a sequence further ahead.
SeqSanityCheck_AtLeast(built, current) == built >= current + 1

\* `BigInt(sequence) !== currentSeq + 1n` guards the warning: the check
\* passes iff the built sequence is the fetched sequence plus one.
SeqSanityCheck(built, current) == built = current + 1

\* The check applied to one pair of inputs.
ApplySeqCheck ==
  /\ probe.fn = "seqCheck"
  /\ probe.out = "pending"
  /\ probe' = [probe EXCEPT !.out =
       IF SeqSanityCheck(probe.built, probe.current) THEN "true" ELSE "false"]
  /\ UNCHANGED <<ledgerSeq, registered, accepted, req>>

\* ------------------------- buildCreateVerificationTransaction
\* Entry up to the first await: input validation, then the call of
\* getAccountSequence (server.loadAccount).
BuildCV_Start(r, w, s) ==
  /\ req[r].pc = "idle"
  /\ LET q0 == NewCall([IdleReq EXCEPT !.op = "createVerification",
                                       !.wallet = w, !.source = s], "build")
     IN req' = [req EXCEPT ![r] =
          IF ~validateWalletAddress(w)
            THEN Return(q0, AdminBuildResponse(Failure("Invalid wallet address format")))
          ELSE IF ~validateWalletAddress(s)
            THEN Return(q0, AdminBuildResponse(Failure("Invalid source account format")))
          ELSE [q0 EXCEPT !.pc = "cv_seq", !.ledgerCalls = 1]]
  /\ UNCHANGED <<ledgerSeq, registered, accepted, probe>>

\* A sequence kept from before the call instead of a fetched one.
FetchedSequence_Cached(q) == q.currentSeq

\* getAccountSequence: server.loadAccount(accountId).sequenceNumber(), the
\* ledger's value at the time the call is answered.
FetchedSequence(q) == ledgerSeq[q.source]

\* getAccountSequence returns; on success the client is created for the
\* source account and upsert_verification is called.
BuildCV_SeqReturn(r, ok, th) ==
  /\ req[r].pc = "cv_seq"
  /\ LET q == req[r]
     IN req' = [req EXCEPT ![r] =
          IF ~ok
            THEN Return([q EXCEPT !.thrown = th],
                        BuildResponse(q, Failure("Failed to get account sequence")))
            ELSE [q EXCEPT !.currentSeq = FetchedSequence(q),
                           !.pc = "cv_assemble",
                           !.contractCalls = q.contractCalls + 1]]
  /\ UNCHANGED <<ledgerSeq, registered, accepted, probe>>

\* The client is created with publicKey: sourceAccount.
CVClientAccount(q) == q.source

\* upsert_verification returns the assembled transaction; then simulate()
\* is called.
BuildCV_AssembleReturn(r, ok, th) ==
  /\ req[r].pc = "cv_assemble"
  /\ LET q == req[r]
     IN req' = [req EXCEPT ![r] =
          IF ~ok
            THEN Return([q EXCEPT !.thrown = th],
                        BuildResponse(q, Failure(CatchMessage(th, "client error"))))
            ELSE [q EXCEPT !.tx = AssembleTx(CVClientAccount(q),
                                             ledgerSeq[CVClientAccount(q)],
                                             "upsert_verification", q.wallet),
                           !.pc = "cv_sim",
                           !.contractCalls = q.contractCalls + 1]]
  /\ UNCHANGED <<ledgerSeq, registered, accepted, probe>>

\* A simulation that commits the transaction: the account's sequence
\* advances to the transaction's.
AfterSimulate_Commits(ledger, t) == [ledger EXCEPT ![t.src] = t.seq]

\* assembledTx.simulate() is a dry run against the current ledger state:
\* the sequences the ledger holds after it are those it held before.
AfterSimulate(ledger, t) == ledger

\* A check whose failure makes the build fail.
AfterSeqCheck_Fails(passed, result) ==
  IF passed THEN result ELSE Failure("Tx sequence should equal current+1")

\* The branch of the sanity check only calls logger.warn: the result that
\* follows is built the same whether the check passed or not.
AfterSeqCheck(passed, result) == result

\* simulate() returns; the XDR is parsed back, the sanity check is made
\* (a warning only) and the result carries the parsed sequence.
BuildCV_SimReturn(r, ok, th) ==
  /\ req[r].pc = "cv_sim"
  /\ LET q == req[r]
     IN req' = [req EXCEPT ![r] =
          IF ~ok
            THEN Return([q EXCEPT !.tx = NoTx, !.thrown = th],
                        BuildResponse(q, Failure(CatchMessage(th, "simulation error"))))
            ELSE Return([q EXCEPT !.seqOk = SeqSanityCheck(q.tx.seq, q.currentSeq)],
                        BuildResponse(q,
                          AfterSeqCheck(SeqSanityCheck(q.tx.seq, q.currentSeq),
                            [NoResult EXCEPT !.success = TRUE, !.hasXdr = TRUE,
                                             !.sourceAccount = q.source,
                                             !.hasSeq = TRUE, !.sequence = q.tx.seq])))]
  /\ ledgerSeq' = IF ok THEN AfterSimulate(ledgerSeq, req[r].tx) ELSE ledgerSeq
  /\ UNCHANGED <<registered, accepted, probe>>

\* ---------------------------------------- buildUpdateStatusTransaction
\* Entry up to the first await: the wallet and the status are validated,
\* then buildCreateVerificationTransaction is entered, which validates the
\* source account and calls getAccountSequence.
BuildUS_Start(r, w, st, s) ==
  /\ req[r].pc = "idle"
  /\ LET q0 == NewCall([IdleReq EXCEPT !.op = "updateStatus",
                                       !.wallet = w, !.source = s], "build")
     IN req' = [req EXCEPT ![r] =
          IF ~validateWalletAddress(w)
            THEN Return(q0, Failure("Invalid wallet address format"))
          ELSE IF st \notin StatusTypes
            THEN Return(q0, Failure("Invalid status type"))
          ELSE IF ~validateWalletAddress(s)
            THEN Return(q0, UpdateStatusResponse(Failure("Invalid source account format")))
          ELSE [q0 EXCEPT !.pc = "cv_seq", !.ledgerCalls = 1]]
  /\ UNCHANGED <<ledgerSeq, registered, accepted, probe>>

\* ------------------------------------------- buildRegisterTransaction
\* createClient(wallet): the client's publicKey is the wallet.
RegClientAccount(q) == q.wallet

\* Entry up to the first await: the client is created and client.register
\* is called; neither address is validated.
BuildReg_Start(r, w, s) ==
  /\ req[r].pc = "idle"
  /\ LET q0 == NewCall([IdleReq EXCEPT !.op = "register",
                                       !.wallet = w, !.source = s], "build")
     IN req' = [req EXCEPT ![r] =
          [q0 EXCEPT !.pc = "reg_register", !.contractCalls = 1]]
  /\ UNCHANGED <<ledgerSeq, registered, accepted, probe>>

\* client.register returns the assembled transaction (the ledger holds no
\* account for a malformed address, so the call can only fail for one);
\* then simulate() is called.
BuildReg_RegisterReturn(r, ok, th) ==
  /\ req[r].pc = "reg_register"
  /\ ok => LedgerHasAccount(RegClientAccount(req[r]))
  /\ LET q == req[r]
     IN req' = [req EXCEPT ![r] =
          IF ~ok
            THEN Return([q EXCEPT !.thrown = th],
                        AdminBuildResponse(Failure(CatchMessage(th, "client error"))))
            ELSE [q EXCEPT !.tx = AssembleTx(RegClientAccount(q),
                                             ledgerSeq[RegClientAccount(q)],
                                             "register", q.wallet),
                           !.pc = "reg_sim",
                           !.contractCalls = q.contractCalls + 1]]
  /\ UNCHANGED <<ledgerSeq, registered, accepted, probe>>

\* simulate() returns: { success: true, sourceAccount, xdr }.
BuildReg_SimReturn(r, ok, th) ==
  /\ req[r].pc = "reg_sim"
  /\ LET q == req[r]
     IN req' = [req EXCEPT ![r] =
          IF ~ok
            THEN Return([q EXCEPT !.tx = NoTx, !.thrown = th],
                        AdminBuildResponse(Failure(CatchMessage(th, "simulation error"))))
            ELSE Return(q, AdminBuildResponse(
                          [NoResult EXCEPT !.success = TRUE, !.hasXdr = TRUE,
                                           !.sourceAccount = q.source]))]
  /\ UNCHANGED <<ledgerSeq, registered, accepted, probe>>

\* ---------------------------------------------- submitSignedTransaction
\* What the caller hands in as signedXdr: its signed transaction, an empty
\* string, a value that is no string (a number, an object, undefined), or
\* a string that is no transaction envelope.
SubmitInputs == {"tx", "empty", "nonString", "garbage"}

\* A check of the input's truthiness only.
ValidXdrInput_Truthy(x) == x # "empty"

\* `!signedXdr || typeof signedXdr !== 'string'` rejects the input.
ValidXdrInput(x) == x \notin {"empty", "nonString"}

\* What rpcServer.sendTransaction can answer: a response for a transaction
\* the ledger took ("pending"), a response whose status reports the
\* rejection ("errorStatus"), a rejection thrown as an error ("throwStale"),
\* a failure of the network itself ("throwFault"), or a rejection with a
\* value that is no Error ("throwNonError").
SendOutcomes ==
  {"pending", "errorStatus", "throwStale", "throwFault", "throwNonError"}

\* Entry up to the first await: the non-empty-string check, fromXDR, then
\* the call of sendTransaction.
Submit_Start(r, x) ==
  /\ req[r].pc = "returned"
  /\ req[r].call \in {"build", "rebuild"}
  /\ req[r].res.success
  /\ LET q0 == [NewCall(req[r], "submit") EXCEPT !.xdrIn = x]
     IN req' = [req EXCEPT ![r] =
          IF ~ValidXdrInput(x)
            THEN Return(q0, AdminSubmitResponse(
                              Failure("Invalid XDR: must be a non-empty string")))
          ELSE IF x # "tx"
            THEN Return([q0 EXCEPT !.thrown = "Error", !.deserialized = TRUE],
                        AdminSubmitResponse(
                          Failure(CatchMessage("Error", "XDR parse error"))))
          ELSE [q0 EXCEPT !.pc = "sub_send", !.sends = 1, !.deserialized = TRUE]]
  /\ UNCHANGED <<ledgerSeq, registered, accepted, probe>>

\* The result of submitSignedTransaction once sendTransaction has answered:
\* any response, whatever its status, gives success with the response's
\* hash; a thrown error gives a failure with the error's message.
SubmitResult(how) ==
  CASE how \in {"pending", "errorStatus"} ->
         [NoResult EXCEPT !.success = TRUE, !.hasHash = TRUE]
    [] how = "throwStale" -> Failure(CatchMessage("Error", "tx_bad_seq"))
    [] how = "throwFault" -> Failure(CatchMessage("Error", "network error"))
    [] OTHER -> Failure(CatchMessage("nonError", ""))

\* A submitter that sends again when the send was not taken.
AfterSend_Resend(q, how) ==
  IF how = "pending"
    THEN Return(q, AdminSubmitResponse(SubmitResult(how)))
    ELSE [q EXCEPT !.sends = q.sends + 1]

\* The frame after sendTransaction answered `how`: the method returns.
AfterSend(q, how) == Return(q, AdminSubmitResponse(SubmitResult(how)))

\* sendTransaction answers.  The ledger takes the transaction iff its
\* sequence is current+1, and then the account's sequence advances to it.
Submit_SendReturn(r, how) ==
  /\ req[r].pc = "sub_send"
  /\ LET q == req[r]
         t == q.tx
         v == CASE how = "pending" -> "accepted"
                [] how \in {"throwFault", "throwNonError"} -> "fault"
                [] OTHER -> "stale"
         th == CASE how \in {"throwStale", "throwFault"} -> "Error"
                 [] how = "throwNonError" -> "nonError"
                 [] OTHER -> "none"
     IN /\ how = "pending" => LedgerAccepts(t)
        /\ how \in {"errorStatus", "throwStale"} => ~LedgerAccepts(t)
        /\ req' = [req EXCEPT ![r] = AfterSend([q EXCEPT !.verdict = v, !.thrown = th], how)]
        /\ IF how = "pending"
             THEN /\ ledgerSeq' = [ledgerSeq EXCEPT ![t.src] = t.seq]
                  /\ accepted' = accepted \cup {[src |-> t.src, seq |-> t.seq, by |-> r]}
                  /\ registered' = IF t.fn = "register"
                                     THEN registered \cup {t.wallet}
                                     ELSE registered
             ELSE UNCHANGED <<ledgerSeq, accepted, registered>>
  /\ UNCHANGED probe

\* ------------------------------ rebuildTransactionWithCurrentSequence
\* Entry up to the first await: the original XDR is parsed and
\* getAccountSequence is called.
Rebuild_Start(r) ==
  /\ req[r].pc = "returned"
  /\ req[r].call = "submit"
  /\ ~req[r].res.success
  /\ req' = [req EXCEPT ![r] =
       [NewCall(req[r], "rebuild") EXCEPT !.pc = "rb_seq", !.ledgerCalls = 1]]
  /\ UNCHANGED <<ledgerSeq, registered, accepted, probe>>

\* getAccountSequence returns; on success server.loadAccount is called.
Rebuild_SeqReturn(r, ok) ==
  /\ req[r].pc = "rb_seq"
  /\ ok => LedgerHasAccount(req[r].source)
  /\ LET q == req[r]
     IN req' = [req EXCEPT ![r] =
          IF ~ok
            THEN Return(q, Failure("Failed to get account sequence"))
            ELSE [q EXCEPT !.currentSeq = ledgerSeq[q.source],
                           !.pc = "rb_load",
                           !.ledgerCalls = q.ledgerCalls + 1]]
  /\ UNCHANGED <<ledgerSeq, registered, accepted, probe>>

\* A rebuild numbered from the result of getAccountSequence instead.
RebuildSeq_FirstFetch(fetchedSeq, loadedSeq) == fetchedSeq + 1

\* The sequence of the rebuilt transaction: TransactionBuilder(account)
\* takes the account that loadAccount returned (the second fetch) and
\* build() numbers the transaction one above it.
RebuildSeq(fetchedSeq, loadedSeq) == loadedSeq + 1

\* loadAccount returns; the operations of the original are copied into a
\* new transaction of the loaded account: { success: true, xdr }.
Rebuild_LoadReturn(r, ok) ==
  /\ req[r].pc = "rb_load"
  /\ ok => LedgerHasAccount(req[r].source)
  /\ LET q == req[r]
         a == IF ok THEN ledgerSeq[q.source] ELSE 0
     IN req' = [req EXCEPT ![r] =
          IF ~ok
            THEN Return(q, Failure("network error"))
            ELSE Return([q EXCEPT !.acctSeq = a,
                                  !.tx = [src |-> q.source,
                                          seq |-> RebuildSeq(q.currentSeq, a),
                                          fn |-> q.tx.fn, wallet |-> q.tx.wallet]],
                        [NoResult EXCEPT !.success = TRUE, !.hasXdr = TRUE])]
  /\ UNCHANGED <<ledgerSeq, registered, accepted, probe>>

\* ------------------------------------------------------------- caller
\* The caller stops: after a submit that reported success it takes the
\* request for settled, after a failure it may give up.
Caller_Stop(r) ==
  /\ req[r].pc = "returned"
  /\ req' = [req EXCEPT ![r] =
       [IdleReq EXCEPT !.pc = IF req[r].call = "submit" /\ req[r].res.success
                                THEN "settled" ELSE "gaveUp"]]
  /\ req[r].res.success => req[r].call = "submit"
  /\ UNCHANGED <<ledgerSeq, registered, accepted, probe>>

Next ==
  \/ \E a \in Sources \cap Accounts : ExternalTx(a)
  \/ \E r \in Reqs, w \in Wallets, s \in Sources : BuildCV_Start(r, w, s)
  \/ \E r \in Reqs, ok \in BOOLEAN, th \in Thrown : BuildCV_SeqReturn(r, ok, th)
  \/ \E r \in Reqs, ok \in BOOLEAN, th \in Thrown : BuildCV_AssembleReturn(r, ok, th)
  \/ \E r \in Reqs, ok \in BOOLEAN, th \in Thrown : BuildCV_SimReturn(r, ok, th)
  \/ \E r \in Reqs, w \in Wallets, st \in StatusInputs, s \in Sources :
       BuildUS_Start(r, w, st, s)
  \/ \E r \in Reqs, w \in Wallets, s \in Sources : BuildReg_Start(r, w, s)
  \/ \E r \in Reqs, ok \in BOOLEAN, th \in Thrown : BuildReg_RegisterReturn(r, ok, th)
  \/ \E r \in Reqs, ok \in BOOLEAN, th \in Thrown : BuildReg_SimReturn(r, ok, th)
  \/ \E r \in Reqs, x \in SubmitInputs : Submit_Start(r, x)
  \/ \E r \in Reqs, how \in SendOutcomes : Submit_SendReturn(r, how)
  \/ \E r \in Reqs : Rebuild_Start(r)
  \/ \E r \in Reqs, ok \in BOOLEAN : Rebuild_SeqReturn(r, ok)
  \/ \E r \in Reqs, ok \in BOOLEAN : Rebuild_LoadReturn(r, ok)
  \/ \E r \in Reqs : Caller_Stop(r)

Spec == Init /\ [][Next]_vars

\* The sequence check alone, on every pair of a built and a current
\* sequence in 0..MaxProbe.
InitSeqCheck ==
  /\ InitService
  /\ probe \in [fn : {"seqCheck"}, built : 0..MaxProbe,
                current : 0..MaxProbe, out : {"pending"}]

SeqCheckSpec == InitSeqCheck /\ [][ApplySeqCheck]_vars

\* ------------------------------------------- contract error translator
\* The contract's error table (PassportError of the generated bindings).
PassportError ==
  <<"AlreadyRegistered", "NotRegistered", "Unauthorized",
    "InvalidPoints", "Overflow", "TooManyVerifications">>

\* Raw errors.  A text is an error message: marker "contract" is the
\* pattern `Error(Contract, #<code>)`, "contractTight" the same without the
\* blank, "bare" a `#<code>` outside that pattern, "none" free text.  A
\* ledger failure is the Horizon error payload: its type, whether its
\* operation codes include function_trapped, and what its result_xdr is.
RawTexts ==
  [shape : {"text"},
   marker : {"contract", "contractTight", "bare", "none"},
   code : 0..MaxCode]

RawLedgerFailures ==
  [shape : {"ledger"},
   type : {"transaction_failed", "other", "nullish"},
   trapped : BOOLEAN,
   xdr : {"absent", "undecodable", "failure", "success"}]

NoRaw == [shape |-> "none"]

\* A translation: its text, the code printed in it (if any) and the raw
\* message embedded in it (if any).  NullMessage is the result `null`.
Message(text) == [text |-> text, code |-> 0, raw |-> NoRaw]
NullMessage == Message("null")

\* A table that is one entry off.
mapContractErrorCode_Shifted(errorCode) ==
  CASE errorCode = 1 -> Message("User is not registered. Please register first.")
    [] errorCode = 2 -> Message("Unauthorized access")
    [] errorCode = 3 -> Message("Invalid points value")
    [] errorCode = 4 -> Message("Points overflow error")
    [] errorCode = 5 -> Message("Too many verifications")
    [] errorCode = 6 -> Message("User is already registered")
    [] OTHER -> [Message("Contract error #") EXCEPT !.code = errorCode]

\* mapContractErrorCode: the switch over the six codes, and
\* `Contract error #${errorCode}` by default.
mapContractErrorCode(errorCode) ==
  CASE errorCode = 1 -> Message("User is already registered")
    [] errorCode = 2 -> Message("User is not registered. Please register first.")
    [] errorCode = 3 -> Message("Unauthorized access")
    [] errorCode = 4 -> Message("Invalid points value")
    [] errorCode = 5 -> Message("Points overflow error")
    [] errorCode = 6 -> Message("Too many verifications")
    [] OTHER -> [Message("Contract error #") EXCEPT !.code = errorCode]

\* parseContractError: /Error\(Contract,\s*#(\d+)\)/ matches with or
\* without the blank; no match gives null.
parseContractError(raw) ==
  IF raw.marker \in {"contract", "contractTight"}
    THEN mapContractErrorCode(raw.code)
    ELSE NullMessage

\* The catch block of getScore / getVerifications: the translation of the
\* message if there is one, else `Failed to get ...: ${errorMessage}`.
TranslateThrown(raw) ==
  IF parseContractError(raw) # NullMessage
    THEN parseContractError(raw)
    ELSE [Message("Failed to get: ") EXCEPT !.raw = raw]

\* extractContractErrorCode: returns null whatever the error is.
extractContractErrorCode(xdr) == "null"

\* decodeContractErrorFromXdr: null when decoding throws, a fixed text for
\* a success result, the mapped code when one is extracted, else a fixed
\* text.
decodeContractErrorFromXdr(xdr) ==
  CASE xdr = "undecodable" -> NullMessage
    [] xdr = "success" ->
         Message("Contract execution succeeded but transaction failed for unknown reason")
    [] OTHER ->
         IF extractContractErrorCode(xdr) # "null"
           THEN mapContractErrorCode(extractContractErrorCode(xdr))
           ELSE Message("Contract execution failed with unknown error")

\* parseSorobanContractError: null unless the payload is a failed
\* transaction with function_trapped (reading a nullish payload throws and
\* is caught); then the decoded result_xdr if it decodes, else the generic
\* function_trapped text.
parseSorobanContractError(errorData) ==
  IF errorData.type = "transaction_failed" /\ errorData.trapped
    THEN IF /\ errorData.xdr # "absent"
            /\ decodeContractErrorFromXdr(errorData.xdr) # NullMessage
           THEN decodeContractErrorFromXdr(errorData.xdr)
           ELSE Message("Contract function execution failed (function_trapped)")
    ELSE NullMessage

\* The translator applied to a raw error of either shape.
ApplyTranslate ==
  /\ probe.fn = "translate"
  /\ ~probe.done
  /\ probe' = [probe EXCEPT !.done = TRUE, !.out =
       IF probe.in.shape = "text"
         THEN TranslateThrown(probe.in)
         ELSE parseSorobanContractError(probe.in)]
  /\ UNCHANGED <<ledgerSeq, registered, accepted, req>>

\* -------------------------------------------------- getScore / isHuman
\* PlatformService.HUMAN_THRESHOLD.
HUMAN_THRESHOLD == 35

\* What the contract call of a query ends with: a simulated result value,
\* or a rejection with a raw error text.
ScoreOutcomes ==
  [kind : {"value"}, score : 0..MaxScore]
    \cup [kind : {"throws"}, raw : RawTexts]

\* StellarService.getScore: `if (result.result)` takes the result only if
\* it is truthy, else throws 'No result returned from contract'; whatever
\* is thrown is rethrown as `Contract error: ...` or `Failed to get
\* score: ...`.
StellarGetScore(sim) ==
  IF sim.kind = "value"
    THEN IF sim.score # 0
           THEN [threw |-> FALSE, score |-> sim.score, msg |-> NullMessage]
           ELSE [threw |-> TRUE, score |-> 0,
                 msg |-> [Message("Failed to get: ") EXCEPT
                            !.raw = Message("No result returned from contract")]]
    ELSE [threw |-> TRUE, score |-> 0, msg |-> TranslateThrown(sim.raw)]

\* The result of isHuman; hasIsHuman / hasScore are FALSE for an absent
\* field.
NoHumanResult ==
  [success |-> FALSE, hasIsHuman |-> FALSE, isHuman |-> FALSE,
   hasScore |-> FALSE, score |-> 0, message |-> ""]

\* `score >= this.HUMAN_THRESHOLD`.
HumanCheck(score) == score >= HUMAN_THRESHOLD

\* A test for the name of the contract's error instead of its translation.
IsNotRegisteredMessage_ByName(msg) == msg.text = "NotRegistered"

\* `errorMessage.includes('User is not registered')` in the catch blocks
\* of PlatformService: of the messages StellarService throws, only the
\* translation of code 2 includes that text.
IsNotRegisteredMessage(msg) ==
  msg.text = "User is not registered. Please register first."

\* The result of PlatformService.getScore; hasScore is FALSE for an absent
\* score.
NoScoreResult == [success |-> FALSE, hasScore |-> FALSE, score |-> 0, message |-> ""]

\* PlatformService.getScore.
PlatformGetScore(wallet, sim) ==
  IF ~validateWalletAddress(wallet)
    THEN [NoScoreResult EXCEPT !.message = "Invalid wallet address format"]
  ELSE IF ~StellarGetScore(sim).threw
    THEN [NoScoreResult EXCEPT !.success = TRUE, !.hasScore = TRUE,
            !.score = StellarGetScore(sim).score,
            !.message = "Score retrieved successfully"]
  ELSE IF IsNotRegisteredMessage(StellarGetScore(sim).msg)
    THEN [NoScoreResult EXCEPT !.success = TRUE, !.hasScore = TRUE,
            !.message = "User is not registered. Score is 0."]
  ELSE [NoScoreResult EXCEPT !.message = "Failed to get score"]

ApplyGetScore ==
  /\ probe.fn = "getScore"
  /\ ~probe.done
  /\ probe' = [probe EXCEPT !.done = TRUE,
                            !.out = PlatformGetScore(probe.in.wallet, probe.in.sim)]
  /\ UNCHANGED <<ledgerSeq, registered, accepted, req>>

GetScoreInputs ==
  [fn : {"getScore"}, in : [wallet : Wallets, sim : ScoreOutcomes],
   out : {NoScoreResult}, done : {FALSE}]

\* PlatformService.isHuman.
PlatformIsHuman(wallet, sim) ==
  IF ~validateWalletAddress(wallet)
    THEN [NoHumanResult EXCEPT !.message = "Invalid wallet address format"]
  ELSE IF ~StellarGetScore(sim).threw
    THEN [NoHumanResult EXCEPT !.success = TRUE,
            !.hasIsHuman = TRUE, !.isHuman = HumanCheck(StellarGetScore(sim).score),
            !.hasScore = TRUE, !.score = StellarGetScore(sim).score,
            !.message = "Human verification completed"]
  ELSE IF IsNotRegisteredMessage(StellarGetScore(sim).msg)
    THEN [NoHumanResult EXCEPT !.success = TRUE, !.hasIsHuman = TRUE,
            !.hasScore = TRUE,
            !.message = "User is not registered. Score is 0, not human."]
  ELSE [NoHumanResult EXCEPT !.message = "Failed to verify if human"]

ApplyIsHuman ==
  /\ probe.fn = "isHuman"
  /\ ~probe.done
  /\ probe' = [probe EXCEPT !.done = TRUE,
                            !.out = PlatformIsHuman(probe.in.wallet, probe.in.sim)]
  /\ UNCHANGED <<ledgerSeq, registered, accepted, req>>

IsHumanInputs ==
  [fn : {"isHuman"}, in : [wallet : Wallets, sim : ScoreOutcomes],
   out : {NoHumanResult}, done : {FALSE}]

\* ------------------------------------------------- verification types
\* VerificationType: a tag, and the label of a Custom as its one value
\* (`values` is undefined, here empty, for every other tag).
PlainType(tag) == [tag |-> tag, values |-> <<>>]
CustomType(label) == [tag |-> "Custom", values |-> <<label>>]

PlainTags == {"Over18", "Twitter", "GitHub", "BrightID", "WorldID"}
CustomLabels == {"kyc", "KYC", "github", "unknown"}
StatusLabels ==
  {"status_approved", "status_rejected", "status_pending",
   "APPROVED", "REJECTED", "PENDING"}

VerificationTypes ==
  {PlainType(t) : t \in PlainTags} \cup {CustomType(l) : l \in CustomLabels}

\* String.prototype.toLowerCase on the strings that occur.
ToLowerCase(str) ==
  CASE str = "KYC" -> "kyc"
    [] str = "APPROVED" -> "approved"
    [] str = "REJECTED" -> "rejected"
    [] str = "PENDING" -> "pending"
    [] OTHER -> str

\* PlatformService.convertVerificationTypeToString.
convertVerificationTypeToString(vtype) ==
  CASE vtype.tag = "Over18" -> "over18"
    [] vtype.tag = "Twitter" -> "twitter"
    [] vtype.tag = "GitHub" -> "github"
    [] vtype.tag = "Custom" ->
         IF Len(vtype.values) > 0 /\ vtype.values[1] # ""
           THEN vtype.values[1] ELSE "custom"
    [] OTHER -> "unknown"

\* StellarService.convertToVerificationType on a string: the switch is
\* over the lower-cased string, which is also what a Custom wraps.
convertToVerificationType(type) ==
  CASE ToLowerCase(type) = "over18" -> PlainType("Over18")
    [] ToLowerCase(type) = "twitter" -> PlainType("Twitter")
    [] ToLowerCase(type) = "github" -> PlainType("GitHub")
    [] OTHER -> CustomType(ToLowerCase(type))

\* AdminService.convertToVerificationType: the same switch, but a Custom
\* wraps the string as given.
AdminConvertToVerificationType(type) ==
  CASE ToLowerCase(type) = "over18" -> PlainType("Over18")
    [] ToLowerCase(type) = "twitter" -> PlainType("Twitter")
    [] ToLowerCase(type) = "github" -> PlainType("GitHub")
    [] OTHER -> CustomType(type)

\* A type is converted to its flat string and back by one of the two
\* decoders.
ApplyCodec ==
  /\ probe.fn = "codec"
  /\ ~probe.done
  /\ probe' = [probe EXCEPT !.done = TRUE, !.out =
       IF probe.in.decoder = "stellar"
         THEN convertToVerificationType(convertVerificationTypeToString(probe.in.v))
         ELSE AdminConvertToVerificationType(convertVerificationTypeToString(probe.in.v))]
  /\ UNCHANGED <<ledgerSeq, registered, accepted, req>>

CodecInputs ==
  [fn : {"codec"}, in : [v : VerificationTypes, decoder : {"stellar", "admin"}],
   out : {PlainType("none")}, done : {FALSE}]

\* ------------------------------------------------------ getVerifications
\* The records of a wallet as the contract returns them: lists of up to
\* MaxRecords records, each a type and a timestamp.
RecordTypes ==
  {PlainType("Over18"), CustomType("kyc")}
    \cup {CustomType(l) : l \in StatusLabels \ {"status_pending", "PENDING"}}

Records == [vtype : RecordTypes, timestamp : 0..MaxTs]

RecordLists == UNION {[1..n -> Records] : n \in 0..MaxRecords}

\* What get_verifications ends with: an array of records, a result that
\* is no array, no result at all, or a rejection with a raw error text.
VerificationOutcomes ==
  [kind : {"value"}, records : RecordLists]
    \cup [kind : {"nonArray", "noResult"}, records : {<<>>}]
    \cup [kind : {"throws"},
          raw : {x \in RawTexts : x.code \in {2, 3}}]

\* A result test that takes an empty array for no result.
HasResult_NonEmpty(sim) ==
  sim.kind = "nonArray" \/ (sim.kind = "value" /\ sim.records # <<>>)

\* `if (result.result)`: an array, empty or not, is truthy.
HasResult(sim) == sim.kind \in {"value", "nonArray"}

\* StellarService.getVerifications.
StellarGetVerifications(wallet, sim) ==
  IF ~validateWalletAddress(wallet)
    THEN [threw |-> TRUE, records |-> <<>>,
          msg |-> [Message("Failed to get: ") EXCEPT
                     !.raw = Message("Invalid wallet address format")]]
  ELSE IF sim.kind = "throws"
    THEN [threw |-> TRUE, records |-> <<>>, msg |-> TranslateThrown(sim.raw)]
  ELSE IF ~HasResult(sim)
    THEN [threw |-> TRUE, records |-> <<>>,
          msg |-> [Message("Failed to get: ") EXCEPT
                     !.raw = Message("No result returned from contract")]]
  ELSE [threw |-> FALSE, msg |-> NullMessage,
        records |-> IF sim.kind = "value" THEN sim.records ELSE <<>>]

NoVerificationsResult ==
  [success |-> FALSE, hasVerifications |-> FALSE, verifications |-> <<>>,
   message |-> ""]

\* PlatformService.getVerifications.
PlatformGetVerifications(wallet, sim) ==
  IF ~validateWalletAddress(wallet)
    THEN [NoVerificationsResult EXCEPT !.message = "Invalid wallet address format"]
  ELSE IF ~StellarGetVerifications(wallet, sim).threw
    THEN [NoVerificationsResult EXCEPT !.success = TRUE, !.hasVerifications = TRUE,
            !.verifications =
               [i \in DOMAIN StellarGetVerifications(wallet, sim).records |->
                  [type |-> convertVerificationTypeToString(
                              StellarGetVerifications(wallet, sim).records[i].vtype),
                   timestamp |-> StellarGetVerifications(wallet, sim).records[i].timestamp]],
            !.message = "Verifications retrieved successfully"]
  ELSE IF IsNotRegisteredMessage(StellarGetVerifications(wallet, sim).msg)
    THEN [NoVerificationsResult EXCEPT !.success = TRUE, !.hasVerifications = TRUE,
            !.message = "User is not registered. No verifications found."]
  ELSE [NoVerificationsResult EXCEPT !.message = "Failed to get verifications"]

ApplyGetVerifications ==
  /\ probe.fn = "getVerifications"
  /\ ~probe.done
  /\ probe' = [probe EXCEPT !.done = TRUE, !.out =
                  PlatformGetVerifications(probe.in.wallet, probe.in.sim)]
  /\ UNCHANGED <<ledgerSeq, registered, accepted, req>>

GetVerificationsInputs ==
  [fn : {"getVerifications"}, in : [wallet : Wallets, sim : VerificationOutcomes],
   out : {NoVerificationsResult}, done : {FALSE}]

\* -------------------------------------------------------------- getStatus
\* StellarService.verificationTypeToStatus: the status of a Custom whose
\* label is `status_` followed by a status, else null.
verificationTypeToStatus(vtype) ==
  IF vtype.tag # "Custom" THEN "null"
  ELSE CASE vtype.values[1] = "status_approved" -> "approved"
         [] vtype.values[1] = "status_rejected" -> "rejected"
         [] vtype.values[1] = "status_pending" -> "pending"
         [] OTHER -> "null"

\* AdminService.getStatus: a Custom whose label is APPROVED, PENDING or
\* REJECTED carries that status.
AdminStatusOf(vtype) ==
  IF vtype.tag = "Custom" /\ vtype.values[1] \in {"APPROVED", "PENDING", "REJECTED"}
    THEN vtype.values[1]
    ELSE "null"

\* The status a record encodes for the service `svc`.
StatusOf(svc, vtype) ==
  IF svc = "stellar" THEN verificationTypeToStatus(vtype) ELSE AdminStatusOf(vtype)

\* `verification.timestamp > latestTimestamp`.
IsLater(timestamp, latestTimestamp) == timestamp > latestTimestamp

\* The loop over the records from index i on: latest holds latestStatus
\* and latestTimestamp.
RECURSIVE ScanStatus(_, _, _, _)
ScanStatus(svc, records, i, latest) ==
  IF i > Len(records) THEN latest
  ELSE ScanStatus(svc, records, i + 1,
         IF /\ StatusOf(svc, records[i].vtype) # "null"
            /\ IsLater(records[i].timestamp, latest.timestamp)
           THEN [status |-> StatusOf(svc, records[i].vtype),
                 timestamp |-> records[i].timestamp]
           ELSE latest)

NoStatusResult ==
  [success |-> FALSE, status |-> "", defaulted |-> FALSE, error |-> ""]

\* StellarService.getStatus (svc "stellar", which PlatformService.getStatus
\* passes on) and AdminService.getStatus (svc "admin"): latestStatus
\* starts as null and latestTimestamp as 0; without a latestStatus the
\* default is returned.
GetStatus(svc, wallet, sim) ==
  IF ~validateWalletAddress(wallet)
    THEN [NoStatusResult EXCEPT !.error = "Invalid wallet address format"]
  ELSE IF StellarGetVerifications(wallet, sim).threw
    THEN [NoStatusResult EXCEPT !.error = "Failed to get verifications"]
  ELSE LET latest == ScanStatus(svc, StellarGetVerifications(wallet, sim).records, 1,
                                [status |-> "null", timestamp |-> 0])
       IN IF latest.status # "null"
            THEN [NoStatusResult EXCEPT !.success = TRUE, !.status = latest.status]
            ELSE [NoStatusResult EXCEPT !.success = TRUE, !.defaulted = TRUE,
                    !.status = IF svc = "stellar" THEN "pending" ELSE "PENDING"]

ApplyGetStatus ==
  /\ probe.fn = "getStatus"
  /\ ~probe.done
  /\ probe' = [probe EXCEPT !.done = TRUE, !.out =
                  GetStatus(probe.in.svc, probe.in.wallet, probe.in.sim)]
  /\ UNCHANGED <<ledgerSeq, registered, accepted, req>>

GetStatusInputs ==
  [fn : {"getStatus"},
   in : [svc : {"stellar", "admin"}, wallet : Wallets, sim : VerificationOutcomes],
   out : {NoStatusResult}, done : {FALSE}]

\* ------------------------------------------------ generateApiKeyForHuman
\* What the awaited platformService.isHuman ends with: its result, or a
\* rejection with an Error or with another value.
NoKeyResult ==
  [success |-> FALSE, hasApiKey |-> FALSE, hasIsHuman |-> FALSE,
   isHuman |-> FALSE, error |-> ""]

\* A denial only for a check that reports no isHuman at all.
IsDenied_IfMissing(humanCheck) == ~humanCheck.hasIsHuman

\* `!humanCheck.isHuman`: an absent isHuman is falsy.
IsDenied(humanCheck) == ~humanCheck.hasIsHuman \/ ~humanCheck.isHuman

\* AdminService.generateApiKeyForHuman.
GenerateApiKeyForHuman(rejects, humanCheck) ==
  IF rejects # "none"
    THEN [NoKeyResult EXCEPT !.error = CatchMessage(rejects, "isHuman failed")]
  ELSE IF ~humanCheck.success
    THEN [NoKeyResult EXCEPT !.error = humanCheck.message]
  ELSE IF IsDenied(humanCheck)
    THEN [NoKeyResult EXCEPT !.hasIsHuman = TRUE,
            !.error = "User does not meet human verification requirements"]
  ELSE [NoKeyResult EXCEPT !.success = TRUE, !.hasApiKey = TRUE,
          !.hasIsHuman = TRUE, !.isHuman = TRUE]

ApplyGenerateApiKey ==
  /\ probe.fn = "apiKey"
  /\ ~probe.done
  /\ probe' = [probe EXCEPT !.done = TRUE, !.out =
       GenerateApiKeyForHuman(probe.in.rejects,
                              PlatformIsHuman(probe.in.wallet, probe.in.sim))]
  /\ UNCHANGED <<ledgerSeq, registered, accepted, req>>

ApiKeyInputs ==
  [fn : {"apiKey"},
   in : [wallet : Wallets, sim : ScoreOutcomes, rejects : {"none"} \cup Thrown],
   out : {NoKeyResult}, done : {FALSE}]

\* ---------------------------------------------------------- Veriff webhook
\* A webhook request: whether VERIFF_WEBHOOK_SECRET and
\* ADMIN_SOURCE_ACCOUNT are configured, the x-veriff-signature header
\* (absent, the HMAC of the payload, another hex string, or a string that
\* is no hex digest), the wallet in vendorData, and whether
\* AdminService.updateStatus succeeds.
WebhookRequests ==
  [secret : BOOLEAN, adminSource : BOOLEAN,
   signature : {"missing", "valid", "invalid", "malformed"},
   wallet : {"GW", "none"}, updateOk : BOOLEAN]

\* VeriffService.verifyWebhookSignature: true without a configured
\* secret; else the comparison of the digests, false when it throws.
verifyWebhookSignature(secret, signature) ==
  IF ~secret THEN TRUE ELSE signature = "valid"

NoWebhookResult == [success |-> FALSE, error |-> "", updateCalls |-> 0]

\* VeriffController.handleWebhook and VeriffService.processWebhook.
HandleWebhook(w) ==
  IF w.signature = "missing"
    THEN [NoWebhookResult EXCEPT !.error = "Unauthorized"]
  ELSE IF ~verifyWebhookSignature(w.secret, w.signature)
    THEN [NoWebhookResult EXCEPT !.error = "Unauthorized"]
  ELSE IF w.wallet = "none"
    THEN [NoWebhookResult EXCEPT !.error = "Missing wallet address"]
  ELSE IF ~w.adminSource
    THEN [NoWebhookResult EXCEPT !.success = TRUE]
  ELSE IF ~w.updateOk
    THEN [NoWebhookResult EXCEPT !.error = "update failed", !.updateCalls = 1]
  ELSE [NoWebhookResult EXCEPT !.success = TRUE, !.updateCalls = 1]

ApplyWebhook ==
  /\ probe.fn = "webhook"
  /\ ~probe.done
  /\ probe' = [probe EXCEPT !.done = TRUE, !.out = HandleWebhook(probe.in)]
  /\ UNCHANGED <<ledgerSeq, registered, accepted, req>>

WebhookInputs ==
  [fn : {"webhook"}, in : WebhookRequests, out : {NoWebhookResult}, done : {FALSE}]

\* ------------------------------------------------- Veriff decision mapping
\* Status strings a webhook payload can carry (VeriffWebhookDto.status is
\* any non-empty string).
ProviderStatuses ==
  {"APPROVED", "approved", "DECLINED", "declined", "REJECTED", "rejected",
   "RESUBMISSION_REQUESTED", "resubmission_requested", "PENDING", "pending",
   "UNKNOWN", "expired"}

\* String.prototype.toUpperCase on the status strings above.
ToUpperCase(str) ==
  CASE str = "approved" -> "APPROVED"
    [] str = "declined" -> "DECLINED"
    [] str = "rejected" -> "REJECTED"
    [] str = "resubmission_requested" -> "RESUBMISSION_REQUESTED"
    [] str = "pending" -> "PENDING"
    [] str = "expired" -> "EXPIRED"
    [] OTHER -> str

\* The switch of mapVeriffDecisionToStatus over a status string.
DecisionSwitch(status) ==
  CASE status = "APPROVED" -> "APPROVED"
    [] status \in {"DECLINED", "REJECTED"} -> "REJECTED"
    [] status \in {"RESUBMISSION_REQUESTED", "PENDING"} -> "PENDING"
    [] OTHER -> "PENDING"

mapVeriffDecisionToStatus_CaseSensitive(status) == DecisionSwitch(status)

\* VeriffService.mapVeriffDecisionToStatus.
mapVeriffDecisionToStatus(status) == DecisionSwitch(ToUpperCase(status))

NoDecision == [status |-> ""]

ApplyDecision ==
  /\ probe.fn = "decision"
  /\ ~probe.done
  /\ probe' = [probe EXCEPT !.done = TRUE,
                            !.out = [status |-> mapVeriffDecisionToStatus(probe.in)]]
  /\ UNCHANGED <<ledgerSeq, registered, accepted, req>>

DecisionInputs ==
  [fn : {"decision"}, in : ProviderStatuses, out : {NoDecision}, done : {FALSE}]

\* --------------------- rebuildTransactionWithCurrentSequence: the payload
\* The timeout buildCreateVerificationTransaction gives its transaction and
\* the one a rebuild gives a transaction that has no time bounds.
CreateVerificationTimeout == 120
DefaultRebuildTimeout == 30

\* Operation lists of an original transaction: the one contract invocation
\* of a transaction built by this service, or two operations of a
\* transaction built elsewhere.
OperationLists ==
  {<<"invokeHostFunction">>, <<"payment", "manageData">>,
   <<"manageData", "payment">>}

\* An original transaction and the circumstances of its rebuild: its
\* operations, its fee, whether it has time bounds and whether their
\* minTime is 0, the timeout and the time (in seconds) it was built with,
\* the seconds between its build and the rebuild, and the sequence of the
\* account that loadAccount returns.
RebuildRequests ==
  [ops : OperationLists, fee : {200, 400},
   hasTimeBounds : BOOLEAN, minTimeZero : BOOLEAN,
   timeout : {DefaultRebuildTimeout, CreateVerificationTimeout},
   builtAt : {1000, 2000}, delay : {0, 60}, loadedSeq : 0..1]

\* The time bounds of the original: setTimeout(timeout) at build time ends
\* them `timeout` seconds after the build; minTime is 0 unless the builder
\* was given one.
OriginalTimeBounds(in) ==
  [minTime |-> IF in.minTimeZero THEN 0 ELSE in.builtAt,
   maxTime |-> in.builtAt + in.timeout]

\* TransactionBuilder.setTimeout(seconds) at time `now`: maxTime is now plus
\* the seconds, or 0 (no limit) for 0 seconds; minTime is 0.
SetTimeout(now, seconds) ==
  IF seconds > 0 THEN [minTime |-> 0, maxTime |-> now + seconds]
                 ELSE [minTime |-> 0, maxTime |-> 0]

\* The for-of loop over originalTransaction.operations: each operation is
\* appended to the builder in turn.
RECURSIVE AddOperations(_, _)
AddOperations(builderOps, remaining) ==
  IF remaining = <<>> THEN builderOps
  ELSE AddOperations(Append(builderOps, Head(remaining)), Tail(remaining))

\* TransactionBuilder.build(): the `fee` option is the fee per operation,
\* the built transaction's fee is that times the number of operations.
BuiltFee(baseFee, ops) == baseFee * Len(ops)

\* The timeout the rebuild passes to setTimeout: maxTime - minTime of the
\* original, or 30 when it has no time bounds.
RebuildTimeoutSeconds(in) ==
  IF in.hasTimeBounds
    THEN OriginalTimeBounds(in).maxTime - OriginalTimeBounds(in).minTime
    ELSE DefaultRebuildTimeout

NoRebuilt ==
  [success |-> FALSE, ops |-> <<>>, fee |-> 0, seq |-> 0,
   minTime |-> 0, maxTime |-> 0]

\* rebuildTransactionWithCurrentSequence when both fetches succeed: the
\* transaction that newTransaction.build() returns.
RebuildTransaction(in) ==
  LET ops == AddOperations(<<>>, in.ops)
      tb == SetTimeout(in.builtAt + in.delay, RebuildTimeoutSeconds(in))
  IN [success |-> TRUE, ops |-> ops, fee |-> BuiltFee(in.fee, ops),
      seq |-> in.loadedSeq + 1,
      minTime |-> tb.minTime, maxTime |-> tb.maxTime]

ApplyRebuild ==
  /\ probe.fn = "rebuild"
  /\ ~probe.done
  /\ probe' = [probe EXCEPT !.done = TRUE, !.out = RebuildTransaction(probe.in)]
  /\ UNCHANGED <<ledgerSeq, registered, accepted, req>>

RebuildInputs ==
  [fn : {"rebuild"}, in : RebuildRequests, out : {NoRebuilt}, done : {FALSE}]

\* ------------------------------------------------- status write and read
\* StellarService.statusToVerificationType: a Custom labelled
\* `status_${status}`.
statusToVerificationType(status) ==
  CASE status = "approved" -> CustomType("status_approved")
    [] status = "rejected" -> CustomType("status_rejected")
    [] status = "pending" -> CustomType("status_pending")

\* AdminService.updateStatus: a Custom labelled with the status as given,
\* APPROVED, PENDING or REJECTED; buildCreateVerificationTransaction
\* passes a type that is already an object on unchanged.
AdminStatusVerificationType(status) ==
  CASE status = "approved" -> CustomType("APPROVED")
    [] status = "rejected" -> CustomType("REJECTED")
    [] status = "pending" -> CustomType("PENDING")

\* The type that the update path `writer` puts into its transaction for a
\* status.
WrittenStatusType(writer, status) ==
  IF writer = "stellar" THEN statusToVerificationType(status)
                        ELSE AdminStatusVerificationType(status)

\* A status update and the read after it: the path that built the update,
\* the path that reads, the status, the ledger time at which the update
\* was applied and the wallet's records before it, all older.
StatusRoundTrips ==
  {x \in [writer : {"stellar", "admin"}, reader : {"stellar", "admin"},
          status : {"approved", "rejected", "pending"},
          timestamp : 1..MaxTs,
          earlier : {l \in RecordLists : Len(l) <= 1}] :
     \A i \in DOMAIN x.earlier : x.earlier[i].timestamp < x.timestamp}

\* The wallet's records once the update is applied on-chain.
RecordsAfterUpdate(x) ==
  Append(x.earlier, [vtype |-> WrittenStatusType(x.writer, x.status),
                     timestamp |-> x.timestamp])

ApplyStatusRoundTrip ==
  /\ probe.fn = "statusRoundTrip"
  /\ ~probe.done
  /\ probe' = [probe EXCEPT !.done = TRUE, !.out =
                  GetStatus(probe.in.reader, "GW",
                            [kind |-> "value", records |-> RecordsAfterUpdate(probe.in)])]
  /\ UNCHANGED <<ledgerSeq, registered, accepted, req>>

StatusRoundTripInputs ==
  [fn : {"statusRoundTrip"}, in : StatusRoundTrips,
   out : {NoStatusResult}, done : {FALSE}]

TranslateInputs ==
  [fn : {"translate"}, in : RawTexts \cup RawLedgerFailures,
   out : {NullMessage}, done : {FALSE}]

\* ----------------------------------------------------- query operations
\* The operations that read or decide without building a transaction,
\* each applied to one input.
InitQuery ==
  /\ InitService
  /\ probe \in TranslateInputs \cup IsHumanInputs \cup CodecInputs
                \cup GetVerificationsInputs \cup GetStatusInputs
                \cup ApiKeyInputs \cup WebhookInputs
                \cup DecisionInputs
                \cup RebuildInputs
                \cup GetScoreInputs
                \cup StatusRoundTripInputs

NextQuery ==
  \/ ApplyTranslate
  \/ ApplyIsHuman
  \/ ApplyCodec
  \/ ApplyGetVerifications
  \/ ApplyGetStatus
  \/ ApplyGenerateApiKey
  \/ ApplyWebhook
  \/ ApplyDecision
  \/ ApplyRebuild
  \/ ApplyGetScore
  \/ ApplyStatusRoundTrip

QuerySpec == InitQuery /\ [][NextQuery]_vars

\* ------------------------------------------------------------- claims
Built(r) == req[r].pc = "returned" /\ req[r].call = "build"
Submitted(r) == req[r].pc = "returned" /\ req[r].call = "submit"
Rebuilt(r) == req[r].pc = "returned" /\ req[r].call = "rebuild"

\* C1: two builds for the same source account made while its ledger
\* sequence is N both carry N+1, and the ledger never takes both: no two
\* accepted transactions of one account share a sequence number.
C1_ConcurrentBuildsClaimSameSequence ==
  /\ \A r1 \in Reqs, r2 \in Reqs :
       ( /\ r1 # r2 /\ Built(r1) /\ Built(r2)
         /\ req[r1].res.success /\ req[r2].res.success
         /\ req[r1].source = req[r2].source
         /\ LedgerHasAccount(req[r1].source)
         /\ req[r1].startSeq = ledgerSeq[req[r1].source]
         /\ req[r2].startSeq = ledgerSeq[req[r1].source] )
       => /\ req[r1].tx.seq = ledgerSeq[req[r1].source] + 1
          /\ req[r2].tx.seq = ledgerSeq[req[r1].source] + 1
  /\ \A x \in accepted, y \in accepted :
       (x.src = y.src /\ x.seq = y.seq) => x.by = y.by

\* C2: a submit to which the network answered "stale sequence" returns
\* success: false with an error that identifies the stale sequence.
C2_StaleSequenceIsReported ==
  \A r \in Reqs :
    (Submitted(r) /\ req[r].verdict = "stale")
      => (~req[r].res.success /\ req[r].res.error = "tx_bad_seq")

\* C3: a submit returns success: true only if the network accepted the
\* transaction, and success: false with an error in every other outcome.
C3_SuccessOnlyIfAccepted ==
  \A r \in Reqs :
    (Submitted(r) /\ req[r].verdict # "none")
      => /\ req[r].res.success <=> req[r].verdict = "accepted"
         /\ req[r].verdict # "accepted" => req[r].res.error # ""

\* C4: a successful rebuild returns a transaction of the source account
\* whose sequence is the sequence loaded from the ledger during the call
\* plus one, also when the ledger advanced since the call's first fetch.
C4_RebuiltSequenceIsLoadedPlusOne ==
  \A r \in Reqs :
    (Rebuilt(r) /\ req[r].res.success)
      => /\ req[r].tx.seq = req[r].acctSeq + 1
         /\ req[r].tx.src = req[r].source
         /\ req[r].acctSeq >= req[r].currentSeq

\* A rebuild succeeded although the ledger advanced between its two fetches.
C4_Witness ==
  \E r \in Reqs :
    Rebuilt(r) /\ req[r].res.success /\ req[r].acctSeq > req[r].currentSeq

\* C5: detect-and-retry recovers every request: a request whose caller was
\* told that its submission succeeded, and so has stopped retrying, has a
\* transaction accepted by the ledger.
C5_SettledRequestWasAccepted ==
  \A r \in Reqs :
    req[r].pc = "settled" => \E x \in accepted : x.by = r

\* C6: one call of submitSignedTransaction sends at most once and makes no
\* call of the ledger's account endpoint or of the contract client (it
\* never rebuilds).
C6_SubmitSendsAtMostOnce ==
  \A r \in Reqs :
    /\ req[r].sends <= 1
    /\ req[r].call = "submit"
         => (req[r].ledgerCalls = 0 /\ req[r].contractCalls = 0)

\* A submit that was not taken has returned after its one send.
C6_Witness ==
  \E r \in Reqs :
    /\ Submitted(r) /\ req[r].sends = 1
    /\ req[r].verdict \in {"stale", "fault"}
    /\ ~req[r].res.success

\* C7: the sequence check never throws, passes exactly when the built
\* sequence is the current sequence plus one, and so fails for current,
\* current+2 and current-1.
C7_SeqCheckExact ==
  probe.out # "pending"
    => /\ probe.out \in {"true", "false"}
       /\ probe.out = "true" <=> probe.built = probe.current + 1
       /\ probe.built \in {probe.current, probe.current + 2, probe.current - 1}
            => probe.out = "false"

\* The check has failed a built sequence of current+2.
C7_Witness ==
  probe.out = "false" /\ probe.built = probe.current + 2

\* C8: a build with a malformed wallet or source account fails with the
\* error naming the malformed field, and has called neither the ledger nor
\* the contract client.
C8_MalformedAddressFailsFast ==
  \A r \in Reqs :
    (Built(r) /\ (~validateWalletAddress(req[r].wallet)
                  \/ ~validateWalletAddress(req[r].source)))
      => /\ ~req[r].res.success
         /\ req[r].res.error =
              IF ~validateWalletAddress(req[r].wallet)
                THEN "Invalid wallet address format"
                ELSE "Invalid source account format"
         /\ req[r].ledgerCalls = 0
         /\ req[r].contractCalls = 0

\* C9: a register build for a wallet that is already registered fails with
\* an error telling so, and never calls client.register.
C9_RegisteredWalletShortCircuits ==
  \A r \in Reqs :
    (Built(r) /\ req[r].op = "register" /\ req[r].regAtStart)
      => /\ ~req[r].res.success
         /\ req[r].res.error # ""
         /\ req[r].contractCalls = 0

\* C10: a successful register build for valid addresses, made while the
\* source account's ledger sequence is N, returns a sequence field of N+1.
C10_RegisterReturnsNextSequence ==
  \A r \in Reqs :
    ( /\ Built(r) /\ req[r].op = "register" /\ req[r].res.success
      /\ validateWalletAddress(req[r].wallet)
      /\ validateWalletAddress(req[r].source)
      /\ req[r].startSeq = ledgerSeq[req[r].source] )
    => (req[r].res.hasSeq /\ req[r].res.sequence = req[r].startSeq + 1)

\* C11: a build or submit call in which the ledger, the contract client,
\* the simulation or the deserialization failed, with an Error or with any
\* other value, has returned a result with success false and an error set.
C11_FailuresAreReturned ==
  \A r \in Reqs :
    (req[r].call \in {"build", "submit"} /\ req[r].thrown # "none")
      => /\ req[r].pc = "returned"
         /\ ~req[r].res.success
         /\ req[r].res.error # ""

\* An update-status build and a submit have each caught a rejection that
\* is no Error and returned.
C11_Witness ==
  /\ \E r \in Reqs : /\ Built(r) /\ req[r].op = "updateStatus"
                      /\ req[r].thrown = "nonError"
  /\ \E r \in Reqs : Submitted(r) /\ req[r].thrown = "nonError"

\* The error kind that a translation reports.
KindOfMessage(m) ==
  CASE m.text = "User is already registered" -> "AlreadyRegistered"
    [] m.text = "User is not registered. Please register first." -> "NotRegistered"
    [] m.text = "Unauthorized access" -> "Unauthorized"
    [] m.text = "Invalid points value" -> "InvalidPoints"
    [] m.text = "Points overflow error" -> "Overflow"
    [] m.text = "Too many verifications" -> "TooManyVerifications"
    [] m = NullMessage -> "none"
    [] OTHER -> "Unknown"

Translated == probe.fn = "translate" /\ probe.done
CarriesCode(raw) ==
  raw.shape = "text" /\ raw.marker \in {"contract", "contractTight"}

\* C12: a raw error that carries contract code 1..6 translates to the kind
\* the table gives for that code, one that carries any other code
\* translates to Unknown, and every translation yields a value.
C12_TranslationFollowsTable ==
  Translated =>
    /\ probe.out \in [text : STRING, code : Int, raw : {NoRaw, probe.in}]
    /\ CarriesCode(probe.in) =>
         KindOfMessage(probe.out) =
           IF probe.in.code \in DOMAIN PassportError
             THEN PassportError[probe.in.code]
             ELSE "Unknown"

\* Code 3 has been translated to Unauthorized.
C12_Witness ==
  /\ Translated /\ CarriesCode(probe.in) /\ probe.in.code = 3
  /\ KindOfMessage(probe.out) = "Unauthorized"

\* C13: a raw error from which no code can be extracted (a text without
\* the contract's code marker, or the ledger's failure result of a trapped
\* contract call) translates to Unknown carrying the original message,
\* never to one of the six kinds.
C13_NoCodeGivesUnknownWithOriginal ==
  ( /\ Translated
    /\ \/ probe.in.shape = "text" /\ ~CarriesCode(probe.in)
       \/ /\ probe.in.shape = "ledger"
          /\ probe.in.type = "transaction_failed" /\ probe.in.trapped )
  => /\ KindOfMessage(probe.out) = "Unknown"
     /\ probe.out.raw = probe.in

\* C14: isHuman for a valid wallet whose score is s returns success with
\* isHuman = (s >= 35) and score = s.
C14_IsHumanFollowsThreshold ==
  ( /\ probe.fn = "isHuman" /\ probe.done
    /\ validateWalletAddress(probe.in.wallet)
    /\ probe.in.sim.kind = "value" )
  => /\ probe.out.success
     /\ probe.out.hasIsHuman
     /\ probe.out.isHuman <=> probe.in.sim.score >= 35
     /\ probe.out.hasScore
     /\ probe.out.score = probe.in.sim.score

\* C15: getVerifications for a valid wallet with zero on-chain records
\* returns success with an empty list.
C15_NoRecordsIsSuccess ==
  ( /\ probe.fn = "getVerifications" /\ probe.done
    /\ validateWalletAddress(probe.in.wallet)
    /\ probe.in.sim.kind = "value" /\ probe.in.sim.records = <<>> )
  => /\ probe.out.success
     /\ probe.out.hasVerifications
     /\ probe.out.verifications = <<>>

\* getVerifications has returned for a valid wallet without records.
C15_Witness ==
  /\ probe.fn = "getVerifications" /\ probe.done
  /\ validateWalletAddress(probe.in.wallet)
  /\ probe.in.sim.kind = "value" /\ probe.in.sim.records = <<>>
  /\ probe.out.success

\* C16: every verification type (the five plain tags, and Custom with a
\* non-empty label) converted to its flat string and back is the type
\* itself, whichever of the two decoders is used.
C16_CodecRoundTrip ==
  (probe.fn = "codec" /\ probe.done) => probe.out = probe.in.v

\* The records of the wallet that encode a status for the service asked.
StatusRecords ==
  {i \in DOMAIN probe.in.sim.records :
     StatusOf(probe.in.svc, probe.in.sim.records[i].vtype) # "null"}

\* C17: getStatus for a wallet with at least one status-encoded record
\* returns the status of such a record with the maximal timestamp, and
\* returns the default only for a wallet with none.
C17_StatusIsLatestRecord ==
  ( /\ probe.fn = "getStatus" /\ probe.done
    /\ validateWalletAddress(probe.in.wallet)
    /\ probe.in.sim.kind = "value" )
  => /\ probe.out.success
     /\ probe.out.defaulted => StatusRecords = {}
     /\ StatusRecords # {} =>
          \E i \in StatusRecords :
            /\ \A j \in StatusRecords :
                 probe.in.sim.records[j].timestamp <= probe.in.sim.records[i].timestamp
            /\ probe.out.status = StatusOf(probe.in.svc, probe.in.sim.records[i].vtype)

\* C18: a submit given an empty or non-string signedXdr returns success
\* false, has not deserialized anything and has sent nothing.
C18_BadXdrRejectedFirst ==
  \A r \in Reqs :
    (req[r].call = "submit" /\ req[r].xdrIn \in {"empty", "nonString"})
      => /\ req[r].pc = "returned"
         /\ ~req[r].res.success
         /\ req[r].res.error # ""
         /\ ~req[r].deserialized
         /\ req[r].sends = 0

\* A submit given a non-string and one given an empty string have returned.
C18_Witness ==
  /\ \E r \in Reqs : Submitted(r) /\ req[r].xdrIn = "nonString"
  /\ \E r \in Reqs : Submitted(r) /\ req[r].xdrIn = "empty"

\* The human check of the request: what isHuman returned for its wallet.
HumanCheckOfProbe == PlatformIsHuman(probe.in.wallet, probe.in.sim)

\* C19: generateApiKeyForHuman returns an apiKey only when the human check
\* returned success with isHuman true; in every other case (the check
\* failed, reported isHuman false, or threw) it returns success false and
\* no apiKey.
C19_ApiKeyOnlyForHumans ==
  (probe.fn = "apiKey" /\ probe.done) =>
    IF /\ probe.in.rejects = "none"
       /\ HumanCheckOfProbe.success
       /\ HumanCheckOfProbe.hasIsHuman /\ HumanCheckOfProbe.isHuman
      THEN probe.out.success /\ probe.out.hasApiKey
      ELSE ~probe.out.success /\ ~probe.out.hasApiKey

\* A key has been refused to a wallet whose check succeeded with isHuman
\* false.
C19_Witness ==
  /\ probe.fn = "apiKey" /\ probe.done /\ probe.in.rejects = "none"
  /\ HumanCheckOfProbe.success /\ ~HumanCheckOfProbe.isHuman
  /\ ~probe.out.hasApiKey

\* C20: a webhook request whose signature header is missing or is not the
\* valid signature of its payload gets success false with error
\* 'Unauthorized' and causes no call of AdminService.updateStatus.
C20_UnsignedWebhookIsRefused ==
  (probe.fn = "webhook" /\ probe.done /\ probe.in.signature # "valid")
    => /\ ~probe.out.success
       /\ probe.out.error = "Unauthorized"
       /\ probe.out.updateCalls = 0

\* C21: the webhook decision mapping is total over provider statuses,
\* whatever their letter case: APPROVED gives APPROVED, DECLINED and
\* REJECTED give REJECTED, RESUBMISSION_REQUESTED and PENDING give PENDING,
\* every other status gives PENDING, and the result is always one of the
\* three status values.
C21_DecisionMappingIsTotal ==
  (probe.fn = "decision" /\ probe.done) =>
    /\ probe.out.status \in {"APPROVED", "REJECTED", "PENDING"}
    /\ probe.in \in {"APPROVED", "approved"} => probe.out.status = "APPROVED"
    /\ probe.in \in {"DECLINED", "declined", "REJECTED", "rejected"}
         => probe.out.status = "REJECTED"
    /\ probe.in \notin {"APPROVED", "approved", "DECLINED", "declined",
                        "REJECTED", "rejected"}
         => probe.out.status = "PENDING"

\* A lower-case declined decision has been mapped to REJECTED.
C21_Witness ==
  /\ probe.fn = "decision" /\ probe.done
  /\ probe.in = "declined" /\ probe.out.status = "REJECTED"

\* A build of a verification transaction that has got its answer from
\* getAccountSequence.
FetchedForBuild(r) ==
  /\ req[r].call = "build"
  /\ req[r].op \in {"createVerification", "updateStatus"}
  /\ \/ req[r].pc \in {"cv_assemble", "cv_sim"}
     \/ req[r].pc = "returned" /\ req[r].res.success

\* C22: the account sequence a build uses is never cached: every
\* buildCreateVerificationTransaction call fetches it from the ledger once
\* during the call, so the value it holds is no older than the ledger's
\* value when the call began (a build begun after the ledger went from N to
\* N+1 observes N+1) and no newer than the ledger's present value.
C22_SequenceIsFetchedPerBuild ==
  \A r \in Reqs :
    FetchedForBuild(r)
      => /\ req[r].ledgerCalls = 1
         /\ req[r].currentSeq >= req[r].startSeq
         /\ req[r].currentSeq <= ledgerSeq[req[r].source]

\* A build that began after the ledger had advanced returned having
\* observed the advanced sequence.
C22_Witness ==
  \E r \in Reqs :
    /\ FetchedForBuild(r) /\ req[r].pc = "returned"
    /\ req[r].startSeq >= 1 /\ req[r].currentSeq >= 1

\* C23: a sequence mismatch is diagnostic only: a build whose simulation
\* succeeded and whose transaction carries a sequence other than the
\* fetched sequence plus one still returns success with the XDR and the
\* sequence of the built transaction.
C23_MismatchDoesNotFailBuild ==
  \A r \in Reqs :
    ( /\ Built(r)
      /\ req[r].op \in {"createVerification", "updateStatus"}
      /\ req[r].tx # NoTx /\ req[r].thrown = "none"
      /\ req[r].tx.seq # req[r].currentSeq + 1 )
      => /\ req[r].res.success
         /\ req[r].res.hasXdr
         /\ req[r].res.hasSeq
         /\ req[r].res.sequence = req[r].tx.seq

\* A build returned success although the ledger advanced between its fetch
\* and the assembly of its transaction.
C23_Witness ==
  \E r \in Reqs :
    /\ Built(r) /\ req[r].op = "createVerification"
    /\ ~req[r].seqOk /\ req[r].res.success
    /\ req[r].tx.seq > req[r].currentSeq + 1

\* C24: a rebuild changes only the sequence-dependent parts: the rebuilt
\* transaction has the operations of the original, in the same order, and
\* the fee of the original.
C24_RebuildKeepsOperationsAndFee ==
  (probe.fn = "rebuild" /\ probe.done /\ probe.out.success)
    => /\ probe.out.ops = probe.in.ops
       /\ probe.out.fee = probe.in.fee

\* C25: a rebuilt transaction is valid no longer than the original timeout
\* window: for an original built with a timeout of T seconds, the maxTime
\* of the rebuilt transaction is at most T seconds after the time of the
\* rebuild, also when the minTime of the original is 0.
C25_RebuiltWindowWithinTimeout ==
  (probe.fn = "rebuild" /\ probe.done /\ probe.out.success
     /\ probe.in.hasTimeBounds)
    => probe.out.maxTime <= probe.in.builtAt + probe.in.delay + probe.in.timeout

\* C26: getScore for a valid registered wallet returns success with the
\* score that the contract simulation returned, for every score s >= 0,
\* the score 0 included.
C26_GetScoreReturnsSimulatedScore ==
  ( /\ probe.fn = "getScore" /\ probe.done
    /\ validateWalletAddress(probe.in.wallet)
    /\ probe.in.sim.kind = "value" )
  => /\ probe.out.success
     /\ probe.out.hasScore
     /\ probe.out.score = probe.in.sim.score

\* The contract rejected the query of a well-formed wallet with code 2.
RejectedNotRegistered ==
  /\ validateWalletAddress(probe.in.wallet)
  /\ probe.in.sim.kind = "throws"
  /\ probe.in.sim.raw.marker \in {"contract", "contractTight"}
  /\ probe.in.sim.raw.code = 2

C28_StatusReadAgreesWithWrite ==
  (probe.fn = "statusRoundTrip" /\ probe.done)
    => /\ probe.out.success
       /\ ToLowerCase(probe.out.status) = probe.in.status

\* C29: only submission changes the ledger: no step of a build
\* (buildRegisterTransaction, buildCreateVerificationTransaction,
\* buildUpdateStatusTransaction), of a rebuild or of a query changes the
\* ledger's sequences, the contract's state or the set of accepted
\* transactions, and none of them calls sendTransaction.
C29_OnlySubmissionChangesLedger ==
  /\ [][ /\ \A r \in Reqs :
              (req'[r] # req[r] /\ req'[r].call \in {"build", "rebuild"})
                => UNCHANGED <<ledgerSeq, registered, accepted>>
         /\ probe' # probe => UNCHANGED <<ledgerSeq, registered, accepted>> ]_vars
  /\ [](\A r \in Reqs : req[r].call \in {"build", "rebuild"} => req[r].sends = 0)

\* A build of a verification transaction has returned success and a
\* rebuild has returned success, with the ledger as it was when each began
\* and nothing accepted.
C29_Witness ==
  \E r1, r2 \in Reqs :
    /\ Built(r1) /\ req[r1].res.success /\ req[r1].op = "createVerification"
    /\ ledgerSeq[req[r1].source] = req[r1].startSeq
    /\ Rebuilt(r2) /\ req[r2].res.success
    /\ ledgerSeq[req[r2].source] = req[r2].startSeq
    /\ accepted = {}

\* C30: build metadata matches the wire payload: in every successful build
\* result the sequence field, when the result carries one, is the sequence
\* of the transaction encoded in the returned xdr (the fee is read from
\* the same parsed payload), and the sourceAccount field is the account
\* whose sequence that transaction consumes.
C30_MetadataMatchesPayload ==
  \A r \in Reqs :
    (Built(r) /\ req[r].res.success)
      => /\ req[r].res.hasXdr
         /\ req[r].res.hasSeq => req[r].res.sequence = req[r].tx.seq
         /\ req[r].res.sourceAccount = req[r].tx.src
====
